---- MODULE Spec2Model ----
(***************************************************************************)
(* Model of src/parse_xml.py (PyHealthKit): parsing an Apple HealthKit XML *)
(* export into a pandas DataFrame, filtering / extracting / cleaning the   *)
(* "type" column, and the process_health_records pipeline.                 *)
(*                                                                         *)
(* Text is modelled as a sequence of tokens (a token is an indivisible run *)
(* of characters), so that substring search and replacement are computed,  *)
(* not assumed.  A DataFrame is a set of column names plus a sequence of   *)
(* rows (RangeIndex 0..N-1 = positions 1..N); a cell is a string, a        *)
(* Timestamp, or NaN.  pandas semantics are those of pandas 1.x/2.x with   *)
(* object-dtype string columns.                                            *)
(***************************************************************************)
EXTENDS Naturals, Sequences, FiniteSets, TLC

VARIABLES
    xml,      \* the XML document handed to the program
    saveOk,   \* whether save_path can be opened for writing
    records,  \* the DataFrame held by the caller (NoTable before parsing)
    call,     \* the most recent call of a library function and its outcome
    log,      \* log lines: of the most recent call (Spec), of the run (RunSpec)
    pc,       \* position inside process_health_records
    exc,      \* exception in flight inside process_health_records
    file,     \* contents of the file at save_path (NoFile if it does not exist)
    locals,   \* quantity_types / category_types of process_health_records
    steps     \* the steps process_health_records has completed, in order

vars == <<xml, saveOk, records, call, log, pc, exc, file, locals, steps>>

\* ---------------------------------------------------------------- bounds
\* Largest number of XML elements in a document.
MaxElems == 3

\* ---------------------------------------------------------------- values
\* Cells of a DataFrame.
Str(s) == [k |-> "str", v |-> s]
NaN == [k |-> "nan"]
Timestamp(y, m, d) == [k |-> "ts", year |-> y, month |-> m, day |-> d]
IsStr(c) == c.k = "str"

\* Python values passed as type_of_record.
PyStr(s) == [py |-> "str", s |-> s]
PyNone == [py |-> "None"]

NoTable == [none |-> TRUE]
NoFile == [none |-> TRUE]
NoCall == [op |-> "none"]

\* ---------------------------------------------------------------- text
\* f"{type_of_record}": str() of the argument, as tokens.
Format(c) ==
    IF c = PyNone THEN <<"None">>
    ELSE IF c.s = "" THEN <<>>
    ELSE <<c.s>>

\* f"HK{type_of_record}TypeIdentifier"
Pattern(c) == <<"HK">> \o Format(c) \o <<"TypeIdentifier">>

\* pat occurs in s starting at position i
MatchAt(s, pat, i) ==
    /\ i + Len(pat) - 1 <= Len(s)
    /\ \A j \in 1..Len(pat) : s[i + j - 1] = pat[j]

\* str.contains on one string: pat occurs somewhere in s
StrContains(s, pat) == \E i \in 1..Len(s) : MatchAt(s, pat, i)

\* str.replace(pat, "") on one string: every non-overlapping occurrence of
\* pat, scanning left to right, is removed.
RECURSIVE StrRemove(_, _)
StrRemove(s, pat) ==
    IF s = <<>> THEN <<>>
    ELSE IF MatchAt(s, pat, 1)
         THEN StrRemove(SubSeq(s, Len(pat) + 1, Len(s)), pat)
         ELSE <<Head(s)>> \o StrRemove(Tail(s), pat)

\* ---------------------------------------------------------------- outcomes
\* A call either returns a value or raises an exception.
Ok(v) == [status |-> "ok", value |-> v]
Raise(e) == [status |-> e]
LogLine(level, msg, arg) == [level |-> level, msg |-> msg, arg |-> arg]

\* ---------------------------------------------------------------- XML input
AttrNames == {"type", "creationDate", "startDate", "endDate", "device"}
DateCols == {"creationDate", "startDate", "endDate"}

QStep == <<"HK", "Quantity", "TypeIdentifier", "StepCount">>
QHeart == <<"HK", "Quantity", "TypeIdentifier", "HeartRate">>
CSleep == <<"HK", "Category", "TypeIdentifier", "SleepAnalysis">>
GoodDate == <<"2024", "05", "01">>
BadMonth == <<"2024", "13", "01">>
Garbage == <<"not", "a", "date">>
Phone == <<"iPhone">>
Absent == <<"<absent>">>

\* The attribute dictionary of an element: only the attributes it carries.
Attrib(t, cd, sd, ed, dev) ==
    LET full == [type |-> t, creationDate |-> cd, startDate |-> sd,
                 endDate |-> ed, device |-> dev]
    IN  [a \in {b \in AttrNames : full[b] # Absent} |-> full[a]]

Element(tag, attrib) == [tag |-> tag, attrib |-> attrib]

\* The elements documents are built from: Records of both categories, a
\* Record without type, one without device, Records with an unparseable or
\* missing date, and an element that is no Record.
Elements ==
    {Element("Record", Attrib(t, GoodDate, GoodDate, GoodDate, Phone)) :
        t \in {QStep, QHeart, CSleep, Absent}}
    \cup {Element("Record", Attrib(QStep, GoodDate, GoodDate, GoodDate, Absent))}
    \cup {Element("Record", Attrib(QStep, Garbage, GoodDate, GoodDate, Phone)),
          Element("Record", Attrib(QStep, GoodDate, BadMonth, GoodDate, Phone)),
          Element("Record", Attrib(CSleep, GoodDate, GoodDate, Garbage, Phone)),
          Element("Record", Attrib(QStep, GoodDate, GoodDate, Absent, Phone))}
    \cup {Element("ExportDate", Attrib(Absent, Absent, Absent, Absent, Absent))}

\* A document: whether it is well-formed XML, and its elements in document
\* order (the order of root.iter()).
Docs ==
    {[wellFormed |-> TRUE, elems |-> e] :
        e \in UNION {[1..n -> Elements] : n \in 0..MaxElems}}
    \cup {[wellFormed |-> FALSE, elems |-> <<>>]}

\* ---------------------------------------------------------------- parsing
IsRecord(e) == e.tag = "Record"

\* [x.attrib for x in root.iter("Record")]
RecordList(doc) ==
    LET recs == SelectSeq(doc.elems, IsRecord)
    IN  [i \in 1..Len(recs) |-> recs[i].attrib]

\* pd.DataFrame(record_list): one column per attribute seen, one row per
\* dictionary, NaN where a dictionary lacks the attribute.
DataFrame(list) ==
    LET cols == UNION {DOMAIN list[i] : i \in 1..Len(list)}
    IN  [columns |-> cols,
         rows |-> [i \in 1..Len(list) |->
                     [c \in cols |-> IF c \in DOMAIN list[i]
                                     THEN Str(list[i][c]) ELSE NaN]]]

Num == [t \in {"2024", "01", "05", "13"} |->
          CASE t = "2024" -> 2024 [] t = "01" -> 1 [] t = "05" -> 5 [] t = "13" -> 13]

\* Text that reads as a date: year, month 1..12, day 1..31.
IsDateText(s) ==
    /\ Len(s) = 3
    /\ \A i \in 1..3 : s[i] \in DOMAIN Num
    /\ Num[s[2]] \in 1..12
    /\ Num[s[3]] \in 1..31

\* pd.to_datetime on one cell that converts: NaN becomes NaT.
ToDatetime(c) ==
    IF IsStr(c) THEN Timestamp(Num[c.v[1]], Num[c.v[2]], Num[c.v[3]])
    ELSE [k |-> "nat"]

Convertible(c) == IsStr(c) => IsDateText(c.v)

\* Variant of ParseBody converting with errors="coerce": a date that does not
\* parse becomes NaT and the table is returned.
ParseBody_Coerce(doc) ==
    IF ~doc.wellFormed THEN Raise("ParseError")
    ELSE LET df == DataFrame(RecordList(doc))
         IN  IF ~(DateCols \subseteq df.columns) THEN Raise("KeyError")
             ELSE Ok([columns |-> df.columns,
                      rows |-> [i \in 1..Len(df.rows) |->
                         [c \in df.columns |->
                            IF c \in DateCols
                            THEN (IF Convertible(df.rows[i][c])
                                  THEN ToDatetime(df.rows[i][c]) ELSE [k |-> "nat"])
                            ELSE df.rows[i][c]]]])

\* The body of parse_health_data's try block.
ParseBody(doc) ==
    IF ~doc.wellFormed THEN Raise("ParseError")
    ELSE LET df == DataFrame(RecordList(doc))
         IN  IF ~(DateCols \subseteq df.columns) THEN Raise("KeyError")
             ELSE IF \E i \in 1..Len(df.rows) : \E c \in DateCols :
                        ~Convertible(df.rows[i][c])
                  THEN Raise("ValueError")
                  ELSE Ok([columns |-> df.columns,
                           rows |-> [i \in 1..Len(df.rows) |->
                              [c \in df.columns |->
                                 IF c \in DateCols THEN ToDatetime(df.rows[i][c])
                                 ELSE df.rows[i][c]]]])

\* parse_health_data: the try block, and the handler that logs and re-raises.
parse_health_data(doc) ==
    LET r == ParseBody(doc)
    IN  IF r.status = "ok"
        THEN [status |-> "ok", value |-> r.value, logged |-> <<>>]
        ELSE [status |-> r.status, value |-> NoTable,
              logged |-> <<LogLine("error", "Failed to parse XML data", r.status)>>]

\* ---------------------------------------------------------------- type column
Quantity == PyStr("Quantity")
Category == PyStr("Category")

\* The values callers pass as type_of_record, valid and invalid.
CategoryArgs == {Quantity, Category, PyStr("Workout"), PyStr(""), PyNone}

\* type_of_record in ["Quantity", "Category"]
IsValidCategory(c) == c \in {Quantity, Category}

\* One element of records["type"].str.contains(pat): True, False, or NaN for
\* a cell that is no string.
ContainsCell(cell, pat) ==
    IF IsStr(cell) THEN (IF StrContains(cell.v, pat) THEN "True" ELSE "False")
    ELSE "NaN"

\* get_filtered_record_types: records.loc[mask, "type"], a Series that keeps
\* the labels and the values of the selected rows.  It validates nothing; a
\* missing "type" column is a KeyError, a mask holding NaN a ValueError.
get_filtered_record_types(t, c) ==
    IF "type" \notin t.columns THEN Raise("KeyError")
    ELSE LET n == Len(t.rows)
             mask == [i \in 1..n |-> ContainsCell(t.rows[i]["type"], Pattern(c))]
             labels == SelectSeq([i \in 1..n |-> i], LAMBDA i : mask[i] = "True")
         IN  IF \E i \in 1..n : mask[i] = "NaN" THEN Raise("ValueError")
             ELSE Ok([j \in 1..Len(labels) |->
                        [label |-> labels[j], v |-> t.rows[labels[j]]["type"]]])

\* Series.str.replace(pat, ""): labels kept, every value rewritten.
SeriesReplace(ser, pat) ==
    [j \in 1..Len(ser) |-> [label |-> ser[j].label, v |-> Str(StrRemove(ser[j].v.v, pat))]]

InvalidCategoryLog(c) == <<LogLine("error", "Invalid type_of_record provided", c)>>

\* extract_record_types
extract_record_types(t, c) ==
    IF ~IsValidCategory(c)
    THEN [status |-> "ValueError", value |-> <<>>, table |-> t,
          logged |-> InvalidCategoryLog(c)]
    ELSE LET f == get_filtered_record_types(t, c)
         IN  IF f.status # "ok"
             THEN [status |-> f.status, value |-> <<>>, table |-> t, logged |-> <<>>]
             ELSE LET ser == SeriesReplace(f.value, Pattern(c))
                  IN  [status |-> "ok",
                       value |-> [j \in 1..Len(ser) |-> ser[j].v.v],
                       table |-> t, logged |-> <<>>]

\* records.loc[:, "type"] = ser: the Series is aligned on the row labels, and
\* a row whose label the Series lacks receives NaN.
AssignTypeColumn(t, ser) ==
    [columns |-> t.columns,
     rows |-> [i \in 1..Len(t.rows) |->
        [t.rows[i] EXCEPT !["type"] =
            IF \E j \in 1..Len(ser) : ser[j].label = i
            THEN ser[CHOOSE j \in 1..Len(ser) : ser[j].label = i].v
            ELSE NaN]]]

\* clean_record_types (mutates records in place and returns it)
clean_record_types(t, c) ==
    IF ~IsValidCategory(c)
    THEN [status |-> "ValueError", table |-> t, logged |-> InvalidCategoryLog(c)]
    ELSE LET f == get_filtered_record_types(t, c)
         IN  IF f.status # "ok"
             THEN [status |-> f.status, table |-> t, logged |-> <<>>]
             ELSE [status |-> "ok",
                   table |-> AssignTypeColumn(t, SeriesReplace(f.value, Pattern(c))),
                   logged |-> <<>>]

\* ---------------------------------------------------------------- library calls
Init ==
    /\ xml \in Docs
    /\ saveOk = TRUE
    /\ records = NoTable
    /\ call = NoCall
    /\ log = <<>>
    /\ pc = "start"
    /\ exc = "none"
    /\ file = NoFile
    /\ locals = [quantity_types |-> <<>>, category_types |-> <<>>]
    /\ steps = <<>>

RunVars == <<pc, exc, file, locals, steps>>

\* records = parse_health_data(xml)
CallParse ==
    LET r == parse_health_data(xml)
    IN  /\ call' = [op |-> "parse", arg |-> PyNone, before |-> records,
                    status |-> r.status, value |-> [table |-> r.value]]
        /\ records' = IF r.status = "ok" THEN r.value ELSE records
        /\ log' = r.logged
        /\ UNCHANGED <<xml, saveOk, RunVars>>

\* get_filtered_record_types(records, c)
CallFilter(c) ==
    /\ records # NoTable
    /\ LET r == get_filtered_record_types(records, c)
       IN  /\ call' = [op |-> "filter", arg |-> c, before |-> records,
                       status |-> r.status,
                       value |-> [series |-> IF r.status = "ok" THEN r.value ELSE <<>>]]
           /\ log' = <<>>
    /\ UNCHANGED <<xml, saveOk, records, RunVars>>

\* extract_record_types(records, c)
CallExtract(c) ==
    /\ records # NoTable
    /\ LET r == extract_record_types(records, c)
       IN  /\ call' = [op |-> "extract", arg |-> c, before |-> records,
                       status |-> r.status, value |-> [array |-> r.value]]
           /\ records' = r.table
           /\ log' = r.logged
    /\ UNCHANGED <<xml, saveOk, RunVars>>

\* records = clean_record_types(records, c)
CallClean(c) ==
    /\ records # NoTable
    /\ LET r == clean_record_types(records, c)
       IN  /\ call' = [op |-> "clean", arg |-> c, before |-> records,
                       status |-> r.status, value |-> [table |-> r.table]]
           /\ records' = r.table
           /\ log' = r.logged
    /\ UNCHANGED <<xml, saveOk, RunVars>>

Next ==
    \/ CallParse
    \/ \E c \in CategoryArgs : CallFilter(c)
    \/ \E c \in CategoryArgs : CallExtract(c)
    \/ \E c \in CategoryArgs : CallClean(c)

Spec == Init /\ [][Next]_vars

\* ---------------------------------------------------------------- pipeline
\* "\n".join(names)
RECURSIVE Join(_)
Join(names) ==
    IF names = <<>> THEN <<>>
    ELSE IF Len(names) = 1 THEN names[1]
    ELSE names[1] \o <<"\n">> \o Join(Tail(names))

\* The text to_csv writes for a cell: a string as it is, a Timestamp as
\* year-month-day, NaN and NaT as the empty field.
Text == [n \in {2024, 1, 5} |-> CASE n = 2024 -> "2024" [] n = 1 -> "01" [] n = 5 -> "05"]

CsvField(cell) ==
    IF cell.k = "str" THEN cell.v
    ELSE IF cell.k = "ts" THEN <<Text[cell.year], "-", Text[cell.month], "-", Text[cell.day]>>
    ELSE <<>>

\* records.to_csv(save_path): a header and, per row, the row label followed
\* by the fields of the row.
to_csv(t) ==
    [header |-> t.columns,
     rows |-> [i \in 1..Len(t.rows) |->
                 [index |-> i - 1,
                  fields |-> [c \in t.columns |-> CsvField(t.rows[i][c])]]]]

\* records.drop(columns="device", inplace=True) on a table that has the column
DropDevice(t) ==
    [columns |-> t.columns \ {"device"},
     rows |-> [i \in 1..Len(t.rows) |->
                 [c \in t.columns \ {"device"} |-> t.rows[i][c]]]]

Step(name, c, ok) == [name |-> name, arg |-> c, ok |-> ok]

RunInit ==
    /\ xml \in Docs
    /\ saveOk \in BOOLEAN
    /\ records = NoTable
    /\ call = NoCall
    /\ log = <<>>
    /\ pc = "start"
    /\ exc = "none"
    /\ file = NoFile
    /\ locals = [quantity_types |-> <<>>, category_types |-> <<>>]
    /\ steps = <<>>

\* A statement of the try block raised: control goes to the handler.
Raised(name, c, e) ==
    /\ exc' = e
    /\ pc' = "except"
    /\ steps' = Append(steps, Step(name, c, FALSE))

\* records = parse_health_data(xml_path)
RunParse ==
    /\ pc = "start"
    /\ LET r == parse_health_data(xml)
       IN  /\ log' = log \o r.logged
           /\ IF r.status = "ok"
              THEN /\ records' = r.value
                   /\ pc' = "extract_quantity"
                   /\ steps' = Append(steps, Step("parse", PyNone, TRUE))
                   /\ UNCHANGED exc
              ELSE /\ Raised("parse", PyNone, r.status)
                   /\ UNCHANGED records
    /\ UNCHANGED <<xml, saveOk, call, file, locals>>

\* quantity_types = extract_record_types(records, "Quantity")
RunExtractQuantity ==
    /\ pc = "extract_quantity"
    /\ LET r == extract_record_types(records, Quantity)
       IN  /\ log' = log \o r.logged
           /\ records' = r.table
           /\ IF r.status = "ok"
              THEN /\ locals' = [locals EXCEPT !.quantity_types = r.value]
                   /\ pc' = "extract_category"
                   /\ steps' = Append(steps, Step("extract", Quantity, TRUE))
                   /\ UNCHANGED exc
              ELSE /\ Raised("extract", Quantity, r.status)
                   /\ UNCHANGED locals
    /\ UNCHANGED <<xml, saveOk, call, file>>

\* category_types = extract_record_types(records, "Category")
RunExtractCategory ==
    /\ pc = "extract_category"
    /\ LET r == extract_record_types(records, Category)
       IN  /\ log' = log \o r.logged
           /\ records' = r.table
           /\ IF r.status = "ok"
              THEN /\ locals' = [locals EXCEPT !.category_types = r.value]
                   /\ pc' = "log_quantity"
                   /\ steps' = Append(steps, Step("extract", Category, TRUE))
                   /\ UNCHANGED exc
              ELSE /\ Raised("extract", Category, r.status)
                   /\ UNCHANGED locals
    /\ UNCHANGED <<xml, saveOk, call, file>>

\* logger.info("Quantity Types:\n" + "\n".join(quantity_types) + "\n")
RunLogQuantity ==
    /\ pc = "log_quantity"
    /\ log' = Append(log, LogLine("info", "Quantity Types", Join(locals.quantity_types)))
    /\ pc' = "log_category"
    /\ steps' = Append(steps, Step("log", Quantity, TRUE))
    /\ UNCHANGED <<xml, saveOk, records, call, exc, file, locals>>

\* logger.info("Category Types:\n" + "\n".join(category_types) + "\n")
RunLogCategory ==
    /\ pc = "log_category"
    /\ log' = Append(log, LogLine("info", "Category Types", Join(locals.category_types)))
    /\ pc' = "clean"
    /\ steps' = Append(steps, Step("log", Category, TRUE))
    /\ UNCHANGED <<xml, saveOk, records, call, exc, file, locals>>

\* Variant of RunClean that cleans the "Category" names.
RunClean_Category ==
    /\ pc = "clean"
    /\ LET r == clean_record_types(records, Category)
       IN  /\ log' = log \o r.logged
           /\ records' = r.table
           /\ IF r.status = "ok"
              THEN /\ pc' = "drop"
                   /\ steps' = Append(steps, Step("clean", Category, TRUE))
                   /\ UNCHANGED exc
              ELSE Raised("clean", Category, r.status)
    /\ UNCHANGED <<xml, saveOk, call, file, locals>>

\* records = clean_record_types(records, type_of_record="Quantity")
RunClean ==
    /\ pc = "clean"
    /\ LET r == clean_record_types(records, Quantity)
       IN  /\ log' = log \o r.logged
           /\ records' = r.table
           /\ IF r.status = "ok"
              THEN /\ pc' = "drop"
                   /\ steps' = Append(steps, Step("clean", Quantity, TRUE))
                   /\ UNCHANGED exc
              ELSE Raised("clean", Quantity, r.status)
    /\ UNCHANGED <<xml, saveOk, call, file, locals>>

\* Variant of RunDrop in which the table is written before device is dropped.
RunDrop_WriteFirst ==
    /\ pc = "drop"
    /\ file' = IF saveOk THEN to_csv(records) ELSE file
    /\ IF "device" \in records.columns
       THEN /\ records' = DropDevice(records)
            /\ pc' = "to_csv"
            /\ steps' = Append(steps, Step("drop", PyNone, TRUE))
            /\ UNCHANGED exc
       ELSE /\ Raised("drop", PyNone, "KeyError")
            /\ UNCHANGED records
    /\ UNCHANGED <<xml, saveOk, call, log, locals>>

\* records.drop(columns="device", inplace=True)
RunDrop ==
    /\ pc = "drop"
    /\ IF "device" \in records.columns
       THEN /\ records' = DropDevice(records)
            /\ pc' = "to_csv"
            /\ steps' = Append(steps, Step("drop", PyNone, TRUE))
            /\ UNCHANGED exc
       ELSE /\ Raised("drop", PyNone, "KeyError")
            /\ UNCHANGED records
    /\ UNCHANGED <<xml, saveOk, call, log, file, locals>>

\* What a to_csv that raised may leave at save_path besides nothing.
PartialFile == [partial |-> TRUE]

\* records.to_csv(save_path): when it raises, the file was either never
\* opened or is left partly written.
RunToCsv ==
    /\ pc = "to_csv"
    /\ IF saveOk
       THEN /\ file' = to_csv(records)
            /\ pc' = "log_done"
            /\ steps' = Append(steps, Step("write", PyNone, TRUE))
            /\ UNCHANGED exc
       ELSE /\ Raised("write", PyNone, "OSError")
            /\ file' \in {file, PartialFile}
    /\ UNCHANGED <<xml, saveOk, records, call, log, locals>>

\* logger.info("Data processing completed successfully")
RunLogDone ==
    /\ pc = "log_done"
    /\ log' = Append(log, LogLine("info", "Data processing completed successfully", <<>>))
    /\ pc' = "done"
    /\ UNCHANGED <<xml, saveOk, records, call, exc, file, locals, steps>>

\* except Exception as e: logger.error(...); raise e
RunExcept ==
    /\ pc = "except"
    /\ log' = Append(log, LogLine("error", "An error occurred during processing", exc))
    /\ pc' = "raised"
    /\ UNCHANGED <<xml, saveOk, records, call, exc, file, locals, steps>>

RunNext ==
    \/ RunParse
    \/ RunExtractQuantity
    \/ RunExtractCategory
    \/ RunLogQuantity
    \/ RunLogCategory
    \/ RunClean
    \/ RunDrop
    \/ RunToCsv
    \/ RunLogDone
    \/ RunExcept

RunSpec == RunInit /\ [][RunNext]_vars

\* ================================================================ claims
\* What the claims speak of, stated from the input rather than from the
\* operations above.

\* The cell holds text in which HK<category>TypeIdentifier occurs.
Matches(cell, c) == IsStr(cell) /\ StrContains(cell.v, Pattern(c))

\* The text with the first occurrence of pat taken out.
RECURSIVE StripPrefix(_, _)
StripPrefix(s, pat) ==
    IF s = <<>> THEN <<>>
    ELSE IF MatchAt(s, pat, 1) THEN SubSeq(s, Len(pat) + 1, Len(s))
    ELSE <<Head(s)>> \o StripPrefix(Tail(s), pat)

\* The labels of the rows of t whose type matches c, in row order.
MatchingRows(t, c) ==
    SelectSeq([i \in 1..Len(t.rows) |-> i], LAMBDA i : Matches(t.rows[i]["type"], c))

HasTypeColumn(t) == t # NoTable /\ "type" \in t.columns

\* Every row of t holds text in its type column.
AllTypesText(t) ==
    /\ HasTypeColumn(t)
    /\ \A i \in 1..Len(t.rows) : IsStr(t.rows[i]["type"])

IsLibraryCall(ops) == call.op \in ops /\ call.arg \in CategoryArgs

\* C1: clean_record_types(table, category), category valid, rewrites only the
\* type column: matching rows lose the prefix, every other row keeps its
\* original type value, and no other column and no row count changes.
\* Stated for tables whose type column holds text in every row.
C1_CleanIsPartialRewrite ==
    (IsLibraryCall({"clean"}) /\ IsValidCategory(call.arg) /\ AllTypesText(call.before))
    => /\ call.status = "ok"
       /\ records.columns = call.before.columns
       /\ Len(records.rows) = Len(call.before.rows)
       /\ \A i \in 1..Len(call.before.rows) :
            /\ \A col \in call.before.columns \ {"type"} :
                 records.rows[i][col] = call.before.rows[i][col]
            /\ Matches(call.before.rows[i]["type"], call.arg)
                 => records.rows[i]["type"] =
                      Str(StripPrefix(call.before.rows[i]["type"].v, Pattern(call.arg)))
            /\ ~Matches(call.before.rows[i]["type"], call.arg)
                 => records.rows[i]["type"] = call.before.rows[i]["type"]

\* C3: with a category that is neither "Quantity" nor "Category", filter,
\* extract and clean each fail with a ValueError, log the offending value,
\* and leave the table as it was.  Stated for tables whose type column holds
\* text in every row.
C3_InvalidCategoryRejected ==
    (/\ IsLibraryCall({"filter", "extract", "clean"}) /\ ~IsValidCategory(call.arg)
     /\ AllTypesText(call.before))
    => /\ call.status = "ValueError"
       /\ log = <<LogLine("error", "Invalid type_of_record provided", call.arg)>>
       /\ records = call.before

\* C4: clean_record_types applied to its own output, with the same valid
\* category, succeeds and leaves the table as the first call left it.
\* Stated for first calls on tables whose type column holds text in every row.
C4_CleanIdempotent ==
    [][(/\ call.op = "clean" /\ call.status = "ok" /\ AllTypesText(call.before)
        /\ call'.op = "clean" /\ call'.arg = call.arg
        /\ call'.before = records)
       => (call'.status = "ok" /\ records' = records)]_vars

\* The Records of the document, in document order.
RecordsOf(doc) == SelectSeq(doc.elems, IsRecord)

\* Every Record carries the three dates, each as text that reads as a date.
AllDatesGood(doc) ==
    \A i \in 1..Len(RecordsOf(doc)) : \A c \in DateCols :
        /\ c \in DOMAIN RecordsOf(doc)[i].attrib
        /\ IsDateText(RecordsOf(doc)[i].attrib[c])

\* Some Record carries a date that does not read as a date.
SomeDateBad(doc) ==
    \E i \in 1..Len(RecordsOf(doc)) : \E c \in DateCols :
        /\ c \in DOMAIN RecordsOf(doc)[i].attrib
        /\ ~IsDateText(RecordsOf(doc)[i].attrib[c])

\* Row i of table t is Record i of the document: same attributes outside the
\* date columns.
RowIsRecord(t, doc, i) ==
    \A a \in DOMAIN RecordsOf(doc)[i].attrib \ DateCols :
        a \in t.columns /\ t.rows[i][a] = Str(RecordsOf(doc)[i].attrib[a])

\* C5: on a well-formed document with N Records, N >= 0, parse_health_data
\* succeeds and returns N rows, one per Record, in document order.  Stated
\* for documents whose Records all carry three readable dates.
C5_ParseReturnsOneRowPerRecord ==
    (call.op = "parse" /\ xml.wellFormed /\ AllDatesGood(xml))
    => /\ call.status = "ok"
       /\ Len(call.value.table.rows) = Len(RecordsOf(xml))
       /\ \A i \in 1..Len(RecordsOf(xml)) : RowIsRecord(call.value.table, xml, i)

\* C6: if any date value of any Record cannot be parsed, parse_health_data
\* fails as a whole: it raises, logs the error with its cause, and returns
\* no table (the caller's table is not replaced).
C6_ParseFailsFastOnDates ==
    (call.op = "parse" /\ xml.wellFormed /\ SomeDateBad(xml))
    => /\ call.status \in {"ValueError", "KeyError"}
       /\ call.value.table = NoTable
       /\ records = call.before
       /\ log = <<LogLine("error", "Failed to parse XML data", call.status)>>

\* C6 witness: a parse that got as far as the dates and failed on one.
C6_Witness ==
    /\ call.op = "parse" /\ xml.wellFormed /\ SomeDateBad(xml)
    /\ Len(RecordsOf(xml)) >= 2
    /\ call.status = "ValueError"

\* The type names extract_record_types is to return: of the matching rows,
\* in row order, the type with the prefix taken out.
ExpectedNames(t, c) ==
    [j \in 1..Len(MatchingRows(t, c)) |->
        StripPrefix(t.rows[MatchingRows(t, c)[j]]["type"].v, Pattern(c))]

\* C8: extract_record_types(table, category), category valid, returns the
\* stripped type of exactly the matching rows, in row order, duplicates kept.
C8_ExtractReturnsStrippedNames ==
    (IsLibraryCall({"extract"}) /\ IsValidCategory(call.arg) /\ HasTypeColumn(call.before))
    => /\ call.status = "ok"
       /\ call.value.array = ExpectedNames(call.before, call.arg)

\* C9: get_filtered_record_types(table, category), category valid, returns
\* the unmodified type of exactly the matching rows, each once, in row
\* order, and leaves the table as it was.
C9_FilterSelectsMatchingRows ==
    (IsLibraryCall({"filter"}) /\ IsValidCategory(call.arg) /\ HasTypeColumn(call.before))
    => /\ call.status = "ok"
       /\ call.value.series =
            [j \in 1..Len(MatchingRows(call.before, call.arg)) |->
               [label |-> MatchingRows(call.before, call.arg)[j],
                v |-> call.before.rows[MatchingRows(call.before, call.arg)[j]]["type"]]]
       /\ records = call.before

\* ---------------------------------------------------------------- the run
\* Every Record of the document carries type and device.
AllCarryTypeAndDevice(doc) ==
    \A i \in 1..Len(RecordsOf(doc)) :
        {"type", "device"} \subseteq DOMAIN RecordsOf(doc)[i].attrib

\* The type the output is to show for a Record: the name without the
\* HKQuantityTypeIdentifier prefix for a Quantity Record, the original value
\* for any other.
ExpectedOutputType(r) ==
    IF StrContains(r.attrib["type"], Pattern(Quantity))
    THEN StripPrefix(r.attrib["type"], Pattern(Quantity))
    ELSE r.attrib["type"]

\* C2: after a successful run on a document whose Records all carry type and
\* device, the written table has one row per Record, in order, whose type is
\* the stripped name for a Quantity Record and the original prefixed value
\* for a Category Record.
C2_OutputKeepsCategoryTypes ==
    (pc = "done" /\ AllCarryTypeAndDevice(xml))
    => /\ Len(file.rows) = Len(RecordsOf(xml))
       /\ \A i \in 1..Len(RecordsOf(xml)) :
            file.rows[i].fields["type"] = ExpectedOutputType(RecordsOf(xml)[i])

LastStep == steps[Len(steps)]

\* C7: a failure of parse, extract, clean or drop is logged and re-raised,
\* and in no failing run does the output file come to exist; drop fails
\* (KeyError) exactly on a table without a device column.
C7_FailureWritesNoFile ==
    /\ file # NoFile => (Len(steps) > 0 /\ LastStep.name = "write")
    /\ pc \in {"except", "raised"}
         => /\ exc # "none"
            /\ Len(steps) > 0 /\ ~LastStep.ok
            /\ LastStep.name \in {"parse", "extract", "clean", "drop"} => file = NoFile
    /\ pc = "raised"
         => log[Len(log)] = LogLine("error", "An error occurred during processing", exc)
    /\ pc \in {"log_done", "done"} => exc = "none"
    /\ (Len(steps) > 0 /\ LastStep.name = "drop")
         => /\ LastStep.ok <=> (\E i \in 1..Len(RecordsOf(xml)) :
                                   "device" \in DOMAIN RecordsOf(xml)[i].attrib)
            /\ ~LastStep.ok => exc = "KeyError"

\* C7 witness: the run failed at the drop of device and has re-raised.
C7_Witness ==
    /\ pc = "raised" /\ LastStep.name = "drop" /\ exc = "KeyError"
    /\ file = NoFile

\* The order of the steps of a run.
StepOrder ==
    << <<"parse", PyNone>>, <<"extract", Quantity>>, <<"extract", Category>>,
       <<"log", Quantity>>, <<"log", Category>>, <<"clean", Quantity>>,
       <<"drop", PyNone>>, <<"write", PyNone>> >>

\* The type names of the Records of the document that match c, in order.
NamesInDoc(doc, c) ==
    LET hit == SelectSeq(RecordsOf(doc),
                  LAMBDA r : "type" \in DOMAIN r.attrib
                             /\ StrContains(r.attrib["type"], Pattern(c)))
    IN  [j \in 1..Len(hit) |-> StripPrefix(hit[j].attrib["type"], Pattern(c))]

====
